---- MODULE Spec2Model ----
(***************************************************************************)
(* A model of the oTree apps of ignaciourbina/otree-game:                  *)
(*   - otree/cournot_shared_risk/__init__.py: round-robin pairing,         *)
(*     treatment assignment, session creation and the shared-hazard        *)
(*     payoff of a two-player group;                                       *)
(*   - otree/ai_growth_risk/models.py: scenario assignment, the tokenised  *)
(*     runtime menu and the payoffs of a group;                            *)
(*   - formal_model/jones_models.py: calibration, utility, the closed-form *)
(*     solve and the comparative-statics sweeps.                           *)
(* Pure functions are operators; each has a specification that draws its   *)
(* arguments in Init and applies it in one action.  Session creation is a  *)
(* state machine with one action per creating_session call.                *)
(***************************************************************************)
EXTENDS Integers, Sequences, FiniteSets, TLC

VARIABLES
    args,       \* arguments of the pure function under study
    ret,        \* its result, or Pending before the call
    group,      \* a group of one round and its two players
    config,     \* the session config and the app's Constants
    sessions,   \* the sessions created from config, by creation number
    oracle,     \* what a generator seeded with a given value has drawn
    instance    \* a model object of formal_model, as built and as it is now

pureVars == <<args, ret>>
playVars == <<group>>
sessionVars == <<config, sessions, oracle>>
objectVars == <<instance>>
vars == <<args, ret, group, config, sessions, oracle, instance>>

\* a call that has not run, has returned a value, or has raised an error
Pending == [status |-> "pending"]
Returned(v) == [status |-> "returned", value |-> v]
Raised(e) == [status |-> "raised", error |-> e]
IsPending(r) == r.status = "pending"
IsReturned(r) == r.status = "returned"
IsRaised(r) == r.status = "raised"

None == "None"
ValueError == "ValueError"
KeyError == "KeyError"
IndexError == "IndexError"
ZeroDivisionError == "ZeroDivisionError"

\* the variables a specification does not use keep these values
PureIdle == args = <<>> /\ ret = Pending
PlayIdle == group = <<>>
SessionIdle == config = <<>> /\ sessions = <<>> /\ oracle = {}
ObjectIdle == instance = <<>>
\* a record variable is in use when it is not the empty tuple
InUse(x) == DOMAIN x # {}

Range(s) == {s[i] : i \in DOMAIN s}

(***************************************************************************)
(* Bounds of the model.                                                    *)
(***************************************************************************)
\* build_round_robin_schedule is applied to 0 .. 2*MaxSchedulePairs players.
MaxSchedulePairs == 3
\* ensure_unique_pair_feasibility is applied to arguments 0 .. MaxFeasArg.
MaxFeasArg == 10
\* draw_scenario_for_groups is applied to 0 .. MaxDrawGroups groups.
MaxDrawGroups == 8
\* _prepare_scenario is applied to the shipped menus and to every menu of
\* 0 .. MaxMenuLen options with runtimes in MenuRuntimes.
MaxMenuLen == 2
MenuRuntimes == {2000, 6000, 10000, 14000}
MenuIds == <<"first", "second", "third", "fourth">>
\* sessions have 1 .. MaxParticipants participants (and the shipped config)
MaxParticipants == 4
\* Constants.num_rounds is 1 .. MaxRounds (and the shipped DEFAULT_NUM_ROUNDS)
MaxRounds == 3
\* the values a player enters as runtime_choice (the field allows 0 .. 20)
RuntimeChoices == {0, 1000, 2000, 5000, 10000}
\* survival_probability is compared at runtimes of 0 .. MaxRuntimeYears years
MaxRuntimeYears == 6
\* a sweep is called with a grid of 0 .. MaxGridLen values, at most
\* MaxSweepCalls times on one object
MaxGridLen == 2
MaxSweepCalls == 2
\* grid values, taken from the default grids of simulations/runner.py
DeltaGrid == {5, 20, 50}
GrowthGrid == {20, 100}
AIGrowthGrid == {20, 300}
AIMortalityGrid == {0, 50}

(***************************************************************************)
(* Real numbers are fixed-point integers with three decimals: the real x   *)
(* is the integer x * FP.                                                  *)
(***************************************************************************)
FP == 1000

\* x * y and x / y on fixed-point reals (rounded towards minus infinity)
Mul(x, y) == (x * y) \div FP
Div(x, y) == (x * FP) \div y

Max(x, y) == IF x >= y THEN x ELSE y
Min(x, y) == IF x <= y THEN x ELSE y

RECURSIVE ExpSeries(_, _, _, _)
\* the Taylor series of exp at x >= 0, from the term of index i on
ExpSeries(x, i, term, sum) ==
    IF term = 0 THEN sum
    ELSE ExpSeries(x, i + 1, (term * x) \div (i * FP), sum + term)

\* math.exp(x); for x < 0 it is 1 / exp(-x)
Exp(x) ==
    IF x >= 0 THEN ExpSeries(x, 1, FP, 0)
    ELSE (FP * FP) \div ExpSeries(-x, 1, FP, 0)

RECURSIVE LnSearch(_, _, _)
\* the largest y in lo .. hi-1 with Exp(y) <= x, given Exp(lo) <= x < Exp(hi)
LnSearch(x, lo, hi) ==
    IF hi - lo <= 1 THEN lo
    ELSE LET mid == (lo + hi) \div 2
         IN IF Exp(mid) <= x THEN LnSearch(x, mid, hi)
                             ELSE LnSearch(x, lo, mid)

\* math.log(x) for exp(-7) <= x < exp(7); the inverse of Exp by bisection
Ln(x) == LnSearch(x, -(7 * FP), 7 * FP)

\* min(xs), max(xs) of a non-empty sequence
SeqMin(xs) == CHOOSE m \in Range(xs) : \A x \in Range(xs) : m <= x
SeqMax(xs) == CHOOSE m \in Range(xs) : \A x \in Range(xs) : m >= x

\* x ** e: exact for the exponents 0, 1 and -1, exp(e * ln x) otherwise
Pow(x, e) ==
    IF e = 0 THEN FP
    ELSE IF e = FP THEN x
    ELSE IF e = -FP THEN Div(FP, x)
    ELSE Exp(Mul(e, Ln(x)))

(***************************************************************************)
(* Sequence helpers.                                                       *)
(***************************************************************************)

RECURSIVE PermSeqs(_)
\* every ordering of the finite set S, as a sequence
PermSeqs(S) ==
    IF S = {} THEN {<<>>}
    ELSE UNION {{<<x>> \o p : p \in PermSeqs(S \ {x})} : x \in S}

\* random.shuffle(xs) whose outcome is the index permutation perm:
\* the element at position i of the result is xs[perm[i]]
Shuffled(xs, perm) == [i \in 1..Len(xs) |-> xs[perm[i]]]

\* the index permutations rng.shuffle can produce on a list of length k
ShuffleOutcomes(k) == PermSeqs(1..k)

Identity(k) == [i \in 1..k |-> i]

\* math.ceil(a / b) for integers a >= 0, b > 0
CeilDiv(a, b) == (a + b - 1) \div b

\* (xs * repetitions)
RECURSIVE Repeat(_, _)
Repeat(xs, repetitions) ==
    IF repetitions <= 0 THEN <<>> ELSE xs \o Repeat(xs, repetitions - 1)

\* xs[:k]
Prefix(xs, k) == SubSeq(xs, 1, IF k < Len(xs) THEN k ELSE Len(xs))

(***************************************************************************)
(* cournot_shared_risk: the treatment arms                                 *)
(***************************************************************************)
TREATMENTS == <<
    [label |-> "Low curvature", kappa |-> 100,
     omega |-> <<1000, 1000>>, g |-> <<100, 100>>],
    [label |-> "High curvature", kappa |-> 600,
     omega |-> <<1000, 1000>>, g |-> <<100, 100>>],
    [label |-> "Asymmetric influence", kappa |-> 300,
     omega |-> <<1000, 1500>>, g |-> <<100, 110>> ] >>

\* FixedPrimitives
FIXED == [c0 |-> 1000, delta |-> 10, gamma |-> 2000,
          token_floor |-> 10000, token_scale |-> 150000]

(***************************************************************************)
(* cournot_shared_risk: hazard, survival, consumption, utility, payoff     *)
(***************************************************************************)
\* the partner's runtime left out of the aggregate
HazardOfOwnRuntime(T1, T2, arm) ==
    LET Q == Mul(arm.omega[1], T1)
    IN <<Q, FP + Mul(arm.kappa, Q)>>

\* returns (Q, Hprime)
hazard_components(T1, T2, arm) ==
    LET omega1 == arm.omega[1]
        omega2 == arm.omega[2]
        Q == Mul(omega1, T1) + Mul(omega2, T2)
        Hprime == FP + Mul(arm.kappa, Q)
    IN <<Q, Hprime>>

survival_probability(T1, T2, arm) ==
    LET Q == hazard_components(T1, T2, arm)[1]
        H == Q + Mul(Mul(500, arm.kappa), Mul(Q, Q))
    IN Exp(-Mul(FIXED.delta, H))

consumption(runtime, growth_rate) ==
    Mul(FIXED.c0, Exp(Mul(growth_rate, runtime)))

crra_utility(consumption_level) ==
    LET gamma == FIXED.gamma
    IN IF gamma = FP THEN Ln(consumption_level)
       ELSE Div(Pow(consumption_level, FP - gamma), FP - gamma)

\* player_idx is 0 or 1, as in the source
payoff(runtime, partner_runtime, player_idx, arm) ==
    LET survival == survival_probability(runtime, partner_runtime, arm)
        consumption_i == consumption(runtime, arm.g[player_idx + 1])
        utility == crra_utility(consumption_i)
        expected_utility == Mul(survival, utility)
    IN [survival |-> survival,
        consumption |-> consumption_i,
        expected_utility |-> expected_utility]

tokenise(expected_utility, min_utility) ==
    LET shifted == Max(expected_utility - min_utility, 0)
    IN FIXED.token_floor + Mul(FIXED.token_scale, shifted)

\* assign_treatment_to_group: the fields of Group set from an arm
assign_treatment_to_group(arm) ==
    [treatment_label |-> arm.label, kappa |-> arm.kappa,
     omega1 |-> arm.omega[1], omega2 |-> arm.omega[2],
     g1 |-> arm.g[1], g2 |-> arm.g[2]]

\* group_treatment_arm: the arm rebuilt from the fields of Group
group_treatment_arm(fields) ==
    [label |-> fields.treatment_label, kappa |-> fields.kappa,
     omega |-> <<fields.omega1, fields.omega2>>,
     g |-> <<fields.g1, fields.g2>>]

\* set_group_payoffs: the group after the payoffs of both players are set
set_group_payoffs(grp) ==
    LET runtimes == [i \in 1..2 |-> grp.runtime_choice[i][1]]
        arm == group_treatment_arm(grp.treatment)
        outcomes == [i \in 1..2 |->
                        payoff(runtimes[i], runtimes[3 - i], i - 1, arm)]
        min_expected == SeqMin([i \in 1..2 |-> outcomes[i].expected_utility])
    IN [grp EXCEPT
          !.survival = [i \in 1..2 |-> outcomes[i].survival],
          !.consumption = [i \in 1..2 |-> outcomes[i].consumption],
          !.expected_utility = [i \in 1..2 |-> outcomes[i].expected_utility],
          !.payoff = [i \in 1..2 |->
                         tokenise(outcomes[i].expected_utility, min_expected)],
          !.payoffs_set = TRUE]

(***************************************************************************)
(* formal_model/jones_models.py: calibration, Utility and the summary of   *)
(* SimpleAIGrowthRiskModel                                                 *)
(***************************************************************************)
\* the calibration with the power of c0 inverted
CalibrateInverted(c0, gamma, target_v) ==
    IF gamma = FP THEN target_v + Ln(c0)
    ELSE Div(target_v - Div(FP, FP - gamma), Pow(c0, FP - gamma))

calibrate_ubar_from_v(c0, gamma, target_v) ==
    IF gamma = FP THEN target_v - Ln(c0)
    ELSE Div(target_v - Div(FP, FP - gamma), Pow(c0, gamma - FP))

\* Utility(gamma, ubar).u(c)
Utility_u(gamma, ubar, c) ==
    IF gamma = FP THEN ubar + Ln(c)
    ELSE ubar + Div(Pow(c, FP - gamma), FP - gamma)

\* Utility(gamma, ubar).v(c)
Utility_v(gamma, ubar, c) ==
    IF gamma = FP THEN Utility_u(gamma, ubar, c)
    ELSE Mul(ubar, Pow(c, gamma - FP)) + Div(FP, FP - gamma)

\* SimpleAIGrowthRiskModel(**base_params): ubar is calibrated from target_v
SimpleAIGrowthRiskModel(base_params) ==
    [c0 |-> base_params.c0, g |-> base_params.g,
     delta_ |-> base_params.delta_, gamma |-> base_params.gamma,
     ubar |-> calibrate_ubar_from_v(base_params.c0, base_params.gamma,
                                    base_params.target_v)]

c_star(model) ==
    LET g_over_delta == Div(model.g, model.delta_)
        inner == Mul(Div(FP, model.ubar),
                     g_over_delta + Div(FP, model.gamma - FP))
    IN IF model.gamma = FP THEN Exp(g_over_delta - model.ubar)
       ELSE Pow(inner, Div(FP, model.gamma - FP))

\* a float result, or a complex one (a negative base to a fractional power)
Real(v) == [kind |-> "real", value |-> v]
Complex == [kind |-> "complex"]

\* x ** e on Python floats
float_pow(x, e) ==
    IF x > 0 THEN Returned(Real(Pow(x, e)))
    ELSE IF x = 0
    THEN IF e < 0 THEN Raised(ZeroDivisionError)
         ELSE Returned(Real(IF e = 0 THEN FP ELSE 0))
    ELSE IF e % FP # 0 THEN Returned(Complex)
    ELSE IF (e \div FP) % 2 = 0 THEN Returned(Real(Pow(-x, e)))
    ELSE Returned(Real(-Pow(-x, e)))

\* SimpleAIGrowthRiskModel.c_star as a call: what it returns or raises,
\* for every value of inner
c_star_outcome(model) ==
    IF model.delta_ = 0 THEN Raised(ZeroDivisionError)
    ELSE IF model.gamma = FP
    THEN Returned(Real(Exp(Div(model.g, model.delta_) - model.ubar)))
    ELSE IF model.ubar = 0 THEN Raised(ZeroDivisionError)
    ELSE float_pow(Mul(Div(FP, model.ubar),
                       Div(model.g, model.delta_) + Div(FP, model.gamma - FP)),
                   Div(FP, model.gamma - FP))

T_star(model) ==
    Mul(Div(FP, model.g), Ln(Div(c_star(model), model.c0)))

total_extinction_prob(model) ==
    FP - Exp(-Mul(model.delta_, T_star(model)))

summary(model) ==
    [c_star |-> c_star(model), T_star |-> T_star(model),
     extinction_prob |-> total_extinction_prob(model),
     ubar |-> model.ubar, gamma |-> model.gamma,
     g |-> model.g, delta |-> model.delta_]

(***************************************************************************)
(* formal_model/jones_models.py: the comparative statics of                *)
(* SimpleAIGrowthRiskModel.  self is the object's fields; a sweep returns  *)
(* the object as the loop leaves it and the rows.                          *)
(***************************************************************************)
\* the row of one grid point: self.delta_ = d; res = self.summary();
\* res["delta"] = d
OverDeltaRow(self, d) ==
    [summary([self EXCEPT !.delta_ = d]) EXCEPT !.delta = d]

RECURSIVE OverDeltaLoopReversed(_, _, _)
\* the rows collected in reverse grid order
OverDeltaLoopReversed(self, deltas, out) ==
    IF deltas = <<>> THEN [self |-> self, out |-> out]
    ELSE OverDeltaLoopReversed([self EXCEPT !.delta_ = Head(deltas)], Tail(deltas),
                               <<OverDeltaRow(self, Head(deltas))>> \o out)

RECURSIVE OverDeltaLoop(_, _, _)
\* for d in deltas: self.delta_ = d; ...; out.append(res)
OverDeltaLoop(self, deltas, out) ==
    IF deltas = <<>> THEN [self |-> self, out |-> out]
    ELSE OverDeltaLoop([self EXCEPT !.delta_ = Head(deltas)], Tail(deltas),
                       Append(out, OverDeltaRow(self, Head(deltas))))

comparative_statics_over_delta(self, deltas) == OverDeltaLoop(self, deltas, <<>>)

\* self.g = g; res = self.summary(); res["g"] = g
OverGRow(self, g) ==
    [summary([self EXCEPT !.g = g]) EXCEPT !.g = g]

RECURSIVE OverGLoop(_, _, _)
\* for g in gs: self.g = g; ...; out.append(res)
OverGLoop(self, gs, out) ==
    IF gs = <<>> THEN [self |-> self, out |-> out]
    ELSE OverGLoop([self EXCEPT !.g = Head(gs)], Tail(gs),
                   Append(out, OverGRow(self, Head(gs))))

comparative_statics_over_g(self, gs) == OverGLoop(self, gs, <<>>)

(***************************************************************************)
(* formal_model/jones_models.py: DynamicAIGrowthRiskModel                  *)
(***************************************************************************)
\* DynamicAIGrowthRiskModel(**params): ubar is calibrated from target_v
DynamicAIGrowthRiskModel(params) ==
    [c0 |-> params.c0, N0 |-> params.N0, gamma |-> params.gamma,
     ubar |-> calibrate_ubar_from_v(params.c0, params.gamma, params.target_v),
     rho_minus_b |-> params.rho_minus_b, g0 |-> params.g0, m0 |-> params.m0]

welfare(self, g, m) ==
    LET top_part == Div(Mul(self.N0, self.ubar), self.rho_minus_b + m)
        bottom_part ==
            Div(Mul(Div(Mul(self.N0, Pow(self.c0, FP - self.gamma)),
                        FP - self.gamma),
                    FP),
                self.rho_minus_b + m + Mul(self.gamma - FP, g))
    IN top_part + bottom_part

\* welfare as a call: the divisions by rho_minus_b + m, by 1 - gamma and by
\* rho_minus_b + m + (gamma - 1) * g raise ZeroDivisionError at zero
welfare_outcome(self, g, m) ==
    IF \/ self.rho_minus_b + m = 0
       \/ FP - self.gamma = 0
       \/ self.rho_minus_b + m + Mul(self.gamma - FP, g) = 0
    THEN Raised(ZeroDivisionError)
    ELSE Returned(welfare(self, g, m))

delta_star(self, g_ai, m_ai) ==
    FP - Div(welfare(self, self.g0, self.m0), welfare(self, g_ai, m_ai))

RECURSIVE SweepMortalityLoop(_, _, _, _)
\* for m_ai in m_vals: out.append({m_ai, g_ai, delta_star})
SweepMortalityLoop(self, g_ai, m_vals, out) ==
    IF m_vals = <<>> THEN [self |-> self, out |-> out]
    ELSE SweepMortalityLoop(self, g_ai, Tail(m_vals),
            Append(out, [m_ai |-> Head(m_vals), g_ai |-> g_ai,
                         delta_star |-> delta_star(self, g_ai, Head(m_vals))]))

sweep_mortality(self, g_ai, m_vals) == SweepMortalityLoop(self, g_ai, m_vals, <<>>)

RECURSIVE SweepGrowthLoop(_, _, _, _)
\* for g_ai in g_vals: out.append({g_ai, m_ai, delta_star})
SweepGrowthLoop(self, g_vals, m_ai, out) ==
    IF g_vals = <<>> THEN [self |-> self, out |-> out]
    ELSE SweepGrowthLoop(self, Tail(g_vals), m_ai,
            Append(out, [g_ai |-> Head(g_vals), m_ai |-> m_ai,
                         delta_star |-> delta_star(self, Head(g_vals), m_ai)]))

sweep_growth(self, g_vals, m_ai) == SweepGrowthLoop(self, g_vals, m_ai, <<>>)

(***************************************************************************)
(* ai_growth_risk: the scenario catalogue and _prepare_scenario            *)
(***************************************************************************)
\* Constants.SCENARIOS (the descriptions of the menu options are left out)
SCENARIOS == <<
    [code |-> "baseline", label |-> "Balanced benchmark",
     base_params |-> [c0 |-> 1000, g |-> 100, delta_ |-> 10,
                      gamma |-> 2000, target_v |-> 6000],
     runtime_menu |-> <<[id |-> "conservative", runtime |-> 4000],
                        [id |-> "balanced", runtime |-> 8000],
                        [id |-> "ambitious", runtime |-> 12000]>>,
     token_floor |-> 10000, token_scale |-> 150000],
    [code |-> "growth_tilt", label |-> "High growth environment",
     base_params |-> [c0 |-> 1000, g |-> 130, delta_ |-> 10,
                      gamma |-> 2000, target_v |-> 6500],
     runtime_menu |-> <<[id |-> "rapid", runtime |-> 4000],
                        [id |-> "extended", runtime |-> 10000],
                        [id |-> "maximal", runtime |-> 14000]>>,
     token_floor |-> 10000, token_scale |-> 160000],
    [code |-> "risk_tilt", label |-> "High risk environment",
     base_params |-> [c0 |-> 1000, g |-> 90, delta_ |-> 20,
                      gamma |-> 2000, target_v |-> 5500],
     runtime_menu |-> <<[id |-> "safest", runtime |-> 3000],
                        [id |-> "middle", runtime |-> 6000],
                        [id |-> "bold", runtime |-> 9000]>>,
     token_floor |-> 10000, token_scale |-> 140000] >>

\* one entry of options, before its token_preview is set
MenuOption(option, base_params, ubar) ==
    LET runtime == option.runtime
        consumption_ == Mul(base_params.c0, Exp(Mul(base_params.g, runtime)))
        survival_prob == Exp(-Mul(base_params.delta_, runtime))
        expected_utility ==
            Mul(survival_prob, Utility_u(base_params.gamma, ubar, consumption_))
    IN [id |-> option.id, runtime |-> runtime,
        survival_prob |-> survival_prob,
        extinction_prob |-> FP - survival_prob,
        expected_utility |-> expected_utility]

\* the token preview measured from the floor of zero utility, not from the
\* menu's minimum
TokenPreviewUnshifted(expected_utility, min_expected_utility, token_floor, token_scale) ==
    LET shifted == Max(expected_utility, 0)
    IN token_floor + Mul(token_scale, shifted)

\* shifted = max(eu - min_expected_utility, 0);
\* token_floor + token_scale * shifted
TokenPreview(expected_utility, min_expected_utility, token_floor, token_scale) ==
    LET shifted == Max(expected_utility - min_expected_utility, 0)
    IN token_floor + Mul(token_scale, shifted)

\* the optimum held above the smallest menu runtime only
BoundedBelowOnly(optimal_runtime, runtimes) ==
    Max(optimal_runtime, SeqMin(runtimes))

\* min(max(optimal_runtime, min(runtimes)), max(runtimes))
BoundedOptimalRuntime(optimal_runtime, runtimes) ==
    Min(Max(optimal_runtime, SeqMin(runtimes)), SeqMax(runtimes))

\* Subsession._prepare_scenario; min() of an empty menu raises ValueError
prepare_scenario(base_params, runtime_menu, token_floor, token_scale) ==
    LET model == SimpleAIGrowthRiskModel(base_params)
        summ == summary(model)
        ubar == summ.ubar
        optimal_runtime == summ.T_star
        optimal_consumption ==
            Mul(base_params.c0, Exp(Mul(base_params.g, optimal_runtime)))
        optimal_survival_prob == Exp(-Mul(base_params.delta_, optimal_runtime))
        optimal_expected_utility ==
            Mul(optimal_survival_prob,
                Utility_u(base_params.gamma, ubar, optimal_consumption))
        bare == [k \in DOMAIN runtime_menu |->
                    MenuOption(runtime_menu[k], base_params, ubar)]
        expected_utilities == [k \in DOMAIN bare |-> bare[k].expected_utility]
    IN IF Len(runtime_menu) = 0 THEN Raised(ValueError)
       ELSE
        LET min_expected_utility == SeqMin(expected_utilities)
            options == [k \in DOMAIN bare |->
                [id |-> bare[k].id, runtime |-> bare[k].runtime,
                 survival_prob |-> bare[k].survival_prob,
                 extinction_prob |-> bare[k].extinction_prob,
                 expected_utility |-> bare[k].expected_utility,
                 token_preview |->
                    TokenPreview(bare[k].expected_utility, min_expected_utility,
                                 token_floor, token_scale)]]
            runtimes == [k \in DOMAIN options |-> options[k].runtime]
            bounded_optimal_runtime ==
                BoundedOptimalRuntime(optimal_runtime, runtimes)
            optimal_shifted ==
                Max(optimal_expected_utility - min_expected_utility, 0)
            optimal_tokens == token_floor + Mul(token_scale, optimal_shifted)
        IN Returned(
            [options |-> options,
             summary |-> summ,
             optimal_runtime |-> optimal_runtime,
             optimal_consumption |-> optimal_consumption,
             optimal_survival_prob |-> optimal_survival_prob,
             optimal_expected_utility |-> optimal_expected_utility,
             bounded_optimal_runtime |-> bounded_optimal_runtime,
             optimal_tokens |-> optimal_tokens,
             min_expected_utility |-> min_expected_utility])

(***************************************************************************)
(* cournot_shared_risk: draw_scenario_for_groups                           *)
(***************************************************************************)
\* the repetitions rounded down instead of up
DrawFromFloor(catalogue, num_groups, shuffle) ==
    LET base_sequence == Shuffled(catalogue, shuffle)
        repetitions == num_groups \div Len(base_sequence)
    IN Prefix(Repeat(base_sequence, repetitions), num_groups)

\* the body of draw_scenario_for_groups over a non-empty catalogue;
\* shuffle: the outcome of rng.shuffle(base_sequence)
DrawFrom(catalogue, num_groups, shuffle) ==
    LET base_sequence == Shuffled(catalogue, shuffle)
        repetitions == CeilDiv(num_groups, Len(base_sequence))
    IN Prefix(Repeat(base_sequence, repetitions), num_groups)

draw_scenario_for_groups(num_groups, shuffle) ==
    DrawFrom(TREATMENTS, num_groups, shuffle)

\* draw_scenario_for_groups with TREATMENTS set to catalogue: the division
\* num_groups / len(base_sequence) raises on an empty catalogue
draw_scenario_outcome(catalogue, num_groups, shuffle) ==
    IF Len(catalogue) = 0
    THEN Raised(ZeroDivisionError)
    ELSE Returned(DrawFrom(catalogue, num_groups, shuffle))

(***************************************************************************)
(* cournot_shared_risk: build_round_robin_schedule                         *)
(***************************************************************************)
\* a mis-indexed pairing: position i is paired with position n-i (0-based
\* n-i-... off by one), so the last id is never paired
RoundPairsOffByOne(ids) ==
    LET n == Len(ids)
    IN [i \in 1..(n \div 2) |-> <<ids[i], ids[n - i]>>]

\* pairs = [(ids[i], ids[n - 1 - i]) for i in range(n // 2)]
RoundPairs(ids) ==
    LET n == Len(ids)
    IN [i \in 1..(n \div 2) |-> <<ids[i], ids[n + 1 - i]>>]

\* a rotation that fixes no id: the whole list is rotated by one
RotateAll(ids) ==
    LET n == Len(ids)
    IN <<ids[n]>> \o SubSeq(ids, 1, n - 1)

\* ids = [ids[0]] + [ids[-1]] + ids[1:-1]
Rotate(ids) ==
    LET n == Len(ids)
    IN <<ids[1], ids[n]>> \o SubSeq(ids, 2, n - 1)

RECURSIVE RoundRobinLoop(_, _, _)
\* for _ in range(remaining): append the round's pairs, rotate
RoundRobinLoop(ids, remaining, schedule) ==
    IF remaining <= 0 THEN schedule
    ELSE RoundRobinLoop(Rotate(ids), remaining - 1,
                        Append(schedule, RoundPairs(ids)))

\* players: the participants' id_in_session in player order;
\* shuffle: the outcome of rng.shuffle(ids)
build_round_robin_schedule(players, shuffle) ==
    LET ids == Shuffled(players, shuffle)
        n == Len(ids)
    IN RoundRobinLoop(ids, n - 1, <<>>)

(***************************************************************************)
(* cournot_shared_risk: ensure_unique_pair_feasibility                     *)
(***************************************************************************)
\* the comparison slipped to >=
EnsureFeasibilityStrict(num_players, requested_rounds) ==
    LET max_unique_rounds == num_players - 1
    IN IF requested_rounds >= max_unique_rounds
       THEN Raised(ValueError) ELSE Returned(None)

\* returns None, or raises ValueError
ensure_unique_pair_feasibility(num_players, requested_rounds) ==
    LET max_unique_rounds == num_players - 1
    IN IF requested_rounds > max_unique_rounds
       THEN Raised(ValueError) ELSE Returned(None)

(***************************************************************************)
(* Sessions.  config is the session config together with the app's         *)
(* Constants; a session's groups are, per round, the group matrix and the  *)
(* fields creating_session has set on each group.                          *)
(***************************************************************************)
COURNOT == "cournot_shared_risk"
AI_GROWTH == "ai_growth_risk"

DEFAULT_NUM_ROUNDS == 6
players_per_group == 2

\* SESSION_CONFIGS of otree/settings.py: 'cournot_shared_risk_lab'
ShippedConfig ==
    [app |-> COURNOT, num_participants |-> 6,
     num_rounds |-> DEFAULT_NUM_ROUNDS, random_seed |-> <<42>>]

\* session.config.get("random_seed") is None (<<>>) or the configured seed
SeedChoices == {<<>>, <<42>>}

\* oTree's grouping before creating_session runs: consecutive players
DefaultGroups(n) ==
    [k \in 1..CeilDiv(n, players_per_group) |->
        [players |-> SubSeq(Identity(n), players_per_group * (k - 1) + 1,
                            Min(players_per_group * k, n)),
         fields |-> <<>>]]

\* a session before creating_session has run for any round
NewSession(cfg) ==
    [status |-> "creating", error |-> None, next_round |-> 1,
     vars |-> <<>>,
     groups |-> [r \in 1..cfg.num_rounds |-> DefaultGroups(cfg.num_participants)],
     players |-> [i \in 1..cfg.num_participants |->
                     [runtime_choice |-> None, runtime_years |-> <<>>]],
     unseeded_shuffles |-> 0]

\* a generator that is never seeded from the config
NeverSeeded(cfg, round_number) == <<>>

\* rng = random.Random(); if seed is not None: rng.seed(seed + round_number)
\* the generator is <<>> (seeded by the OS) or <<the value it is seeded with>>
CournotGenerator(cfg, round_number) ==
    IF cfg.random_seed = <<>> THEN <<>>
    ELSE <<cfg.random_seed[1] + round_number>>

\* rng = random.Random(); if seed is not None: rng.seed(seed)
AIGenerator(cfg, round_number) ==
    IF cfg.random_seed = <<>> THEN <<>>
    ELSE <<cfg.random_seed[1]>>

\* the generator state at draw i of draws: the seed and the lengths of the
\* lists shuffled before
DrawKey(gen, draws, i) ==
    [seed |-> gen[1], before |-> [j \in 1..(i - 1) |-> Len(draws[j])],
     len |-> Len(draws[i])]

\* a seeded generator repeats what it drew before from the same state
Consistent(orc, gen, draws) ==
    \/ gen = <<>>
    \/ \A i \in DOMAIN draws : \A e \in orc :
          e.key = DrawKey(gen, draws, i) => e.outcome = draws[i]

Drawn(orc, gen, draws) ==
    IF gen = <<>> THEN orc
    ELSE orc \cup {[key |-> DrawKey(gen, draws, i), outcome |-> draws[i]] :
                      i \in DOMAIN draws}

\* every round uses the first round's pairs
FirstRoundPairs(schedule, round_number) == schedule[1]

\* the entry after the round's own, wrapping around
NextRoundPairs(schedule, round_number) ==
    schedule[(round_number % Len(schedule)) + 1]

\* round_pairs = schedule[subsession.round_number - 1]
RoundPairsOf(schedule, round_number) == schedule[round_number]

Failed(sess, e) == [sess EXCEPT !.status = "failed", !.error = e]

\* the schedule written to session.vars ahead of the feasibility check
RaisedAfterStore(sess, schedule) ==
    Failed([sess EXCEPT !.vars = <<schedule>>], ValueError)

\* round 1: ensure_unique_pair_feasibility raises after the schedule is
\* built and before it is written to session.vars
RaisedBeforeStore(sess, schedule) == Failed(sess, ValueError)

\* no player count is refused
NeverOdd(n) == FALSE

\* len(players) % Constants.players_per_group != 0
OddPlayers(n) == n % players_per_group # 0

\* cournot_shared_risk Subsession.creating_session for round
\* sess.next_round; ids_shuffle and arm_shuffle are the outcomes of the two
\* rng.shuffle calls.  Returns the session and the shuffles drawn, in order.
cournot_creating_session(sess, cfg, ids_shuffle, arm_shuffle) ==
    LET round_number == sess.next_round
        n == cfg.num_participants
        players == Identity(n)
    IN IF OddPlayers(n)
       THEN [session |-> Failed(sess, ValueError), draws |-> <<>>]
       ELSE IF round_number = 1
               /\ IsRaised(ensure_unique_pair_feasibility(n, cfg.num_rounds))
       THEN [session |-> RaisedBeforeStore(sess,
                            build_round_robin_schedule(players, ids_shuffle)),
             draws |-> <<ids_shuffle>>]
       ELSE IF round_number # 1 /\ sess.vars = <<>>
       THEN [session |-> Failed(sess, KeyError), draws |-> <<>>]
       ELSE
        LET schedule == IF round_number = 1
                        THEN build_round_robin_schedule(players, ids_shuffle)
                        ELSE sess.vars[1]
            stored == [sess EXCEPT !.vars = <<schedule>>]
            first_draws == IF round_number = 1 THEN <<ids_shuffle>> ELSE <<>>
        IN IF round_number > Len(schedule)
           THEN [session |-> Failed(stored, IndexError), draws |-> first_draws]
           ELSE
            LET round_pairs == RoundPairsOf(schedule, round_number)
                matrix == [k \in DOMAIN round_pairs |->
                              <<round_pairs[k][1], round_pairs[k][2]>>]
                assignments == draw_scenario_for_groups(Len(matrix), arm_shuffle)
                new_groups == [k \in DOMAIN matrix |->
                    [players |-> matrix[k],
                     fields |-> <<assign_treatment_to_group(assignments[k])>>]]
            IN [session |->
                    [stored EXCEPT
                       !.groups[round_number] = new_groups,
                       !.next_round = round_number + 1,
                       !.status = IF round_number = cfg.num_rounds
                                  THEN "created" ELSE "creating"],
                draws |-> Append(first_draws, arm_shuffle)]

\* the fields creating_session sets on a group of ai_growth_risk
ScenarioFields(scenario, prepared) ==
    [scenario_code |-> scenario.code,
     scenario_label |-> scenario.label,
     c0 |-> scenario.base_params.c0,
     g |-> scenario.base_params.g,
     delta |-> scenario.base_params.delta_,
     gamma |-> scenario.base_params.gamma,
     target_v |-> scenario.base_params.target_v,
     ubar |-> prepared.summary.ubar,
     c_star |-> prepared.summary.c_star,
     optimal_runtime |-> prepared.optimal_runtime,
     bounded_optimal_runtime |-> prepared.bounded_optimal_runtime,
     optimal_consumption |-> prepared.optimal_consumption,
     optimal_survival_prob |-> prepared.optimal_survival_prob,
     optimal_extinction_prob |-> prepared.summary.extinction_prob,
     optimal_expected_utility |-> prepared.optimal_expected_utility,
     optimal_tokens |-> prepared.optimal_tokens,
     token_floor |-> scenario.token_floor,
     token_scale |-> scenario.token_scale,
     min_expected_utility |-> prepared.min_expected_utility,
     runtime_choices_blob |-> prepared.options]

\* the loop over zip(groups, assignments): each group gets the fields of
\* its scenario, prepared by _prepare_scenario
GroupWithScenario(grp, scenario) ==
    [players |-> grp.players,
     fields |-> <<ScenarioFields(scenario,
                    prepare_scenario(scenario.base_params, scenario.runtime_menu,
                                     scenario.token_floor, scenario.token_scale).value)>>]

AssignScenarios(groups, assignments) ==
    [k \in DOMAIN groups |-> GroupWithScenario(groups[k], assignments[k])]

\* the loop over get_players(): every player starts on the first option of
\* the group's menu
DefaultChoices(players, groups) ==
    [i \in DOMAIN players |->
        LET k == CHOOSE k \in DOMAIN groups : i \in Range(groups[k].players)
            default_choice == groups[k].fields[1].runtime_choices_blob[1]
        IN [runtime_choice |-> default_choice.id,
            runtime_years |-> <<default_choice.runtime>>]]

AISessionWith(sess, new_groups) ==
    [sess EXCEPT !.groups[1] = new_groups,
                 !.players = DefaultChoices(sess.players, new_groups),
                 !.next_round = 2,
                 !.status = "created"]

\* expanded = scenarios * repetitions; rng.shuffle(expanded);
\* assignments = expanded[:len(groups)]
ScenarioAssignments(scenarios, num_groups, shuffle) ==
    Prefix(Shuffled(Repeat(scenarios, CeilDiv(num_groups, Len(scenarios))),
                    shuffle),
           num_groups)

\* ai_growth_risk Subsession.creating_session (the app has one round);
\* shuffle is the outcome of rng.shuffle(expanded)
ai_creating_session(sess, cfg, shuffle) ==
    IF Len(SCENARIOS) = 0
    THEN [session |-> Failed(sess, ValueError), draws |-> <<>>]
    ELSE [session |->
            AISessionWith(sess,
                AssignScenarios(sess.groups[1],
                    ScenarioAssignments(SCENARIOS, Len(sess.groups[1]), shuffle))),
          draws |-> <<shuffle>>]

\* the session after a creating_session call that drew draws from gen
AfterCall(result, gen) ==
    [result.session EXCEPT
        !.unseeded_shuffles =
            @ + (IF gen = <<>> THEN Len(result.draws) ELSE 0)]

(***************************************************************************)
(* Specifications SpecSession (one session is created from a config) and   *)
(* SpecReplay (two sessions are created from the same config, which has a  *)
(* random_seed).  oTree calls creating_session once per round, in order.   *)
(***************************************************************************)
SessionConfigs ==
    {ShippedConfig} \cup
    {[app |-> COURNOT, num_participants |-> n, num_rounds |-> r,
      random_seed |-> seed] :
        n \in 1..MaxParticipants,
        r \in (1..MaxRounds) \cup {DEFAULT_NUM_ROUNDS},
        seed \in SeedChoices} \cup
    {[app |-> AI_GROWTH, num_participants |-> n, num_rounds |-> 1,
      random_seed |-> seed] :
        n \in 1..MaxParticipants, seed \in SeedChoices}

SessionInit ==
    /\ config \in SessionConfigs
    /\ sessions = [c \in {1} |-> NewSession(config)]
    /\ oracle = {}
    /\ PureIdle
    /\ PlayIdle
    /\ ObjectIdle

ReplayInit ==
    /\ config \in {cfg \in SessionConfigs :
                    /\ cfg.random_seed # <<>>
                    /\ cfg.num_participants <= MaxParticipants}
    /\ sessions = [c \in {1, 2} |-> NewSession(config)]
    /\ oracle = {}
    /\ PureIdle
    /\ PlayIdle
    /\ ObjectIdle

\* a creating_session call of session c with generator gen ends in result
CallEnds(c, gen, result) ==
    /\ Consistent(oracle, gen, result.draws)
    /\ sessions' = [sessions EXCEPT ![c] = AfterCall(result, gen)]
    /\ oracle' = Drawn(oracle, gen, result.draws)

CournotCreatingSession(c) ==
    /\ config.app = COURNOT
    /\ sessions[c].status = "creating"
    /\ \E ids_shuffle \in (IF sessions[c].next_round = 1
                            THEN ShuffleOutcomes(config.num_participants)
                            ELSE {<<>>}) :
       \E arm_shuffle \in ShuffleOutcomes(Len(TREATMENTS)) :
          CallEnds(c, CournotGenerator(config, sessions[c].next_round),
                   cournot_creating_session(sessions[c], config,
                                            ids_shuffle, arm_shuffle))
    /\ UNCHANGED <<config, pureVars, playVars, objectVars>>

AICreatingSession(c) ==
    /\ config.app = AI_GROWTH
    /\ sessions[c].status = "creating"
    /\ \E shuffle \in ShuffleOutcomes(
            Len(SCENARIOS) * CeilDiv(Len(sessions[c].groups[1]), Len(SCENARIOS))) :
          CallEnds(c, AIGenerator(config, sessions[c].next_round),
                   ai_creating_session(sessions[c], config, shuffle))
    /\ UNCHANGED <<config, pureVars, playVars, objectVars>>

SessionNext ==
    \/ \E c \in DOMAIN sessions : CournotCreatingSession(c)
    \/ \E c \in DOMAIN sessions : AICreatingSession(c)

SpecSession == SessionInit /\ [][SessionNext]_vars

SpecReplay == ReplayInit /\ [][SessionNext]_vars

(***************************************************************************)
(* Specification SpecSchedule: build_round_robin_schedule on every list of *)
(* 0 .. 2*MaxSchedulePairs participant ids and every shuffle outcome.      *)
(***************************************************************************)
ScheduleInit ==
    /\ \E n \in 0..(2 * MaxSchedulePairs) :
         \E shuffle \in ShuffleOutcomes(n) :
            args = [players |-> Identity(n), shuffle |-> shuffle]
    /\ ret = Pending
    /\ PlayIdle
    /\ SessionIdle
    /\ ObjectIdle

CallBuildSchedule ==
    /\ IsPending(ret)
    /\ ret' = Returned(build_round_robin_schedule(args.players, args.shuffle))
    /\ UNCHANGED <<args, playVars, sessionVars, objectVars>>

ScheduleNext == CallBuildSchedule

SpecSchedule == ScheduleInit /\ [][ScheduleNext]_vars

(***************************************************************************)
(* Specification SpecFeas: ensure_unique_pair_feasibility on small         *)
(* arguments.                                                              *)
(***************************************************************************)
FeasInit ==
    /\ \E np \in 0..MaxFeasArg : \E rr \in 0..MaxFeasArg :
         args = [num_players |-> np, requested_rounds |-> rr]
    /\ ret = Pending
    /\ PlayIdle
    /\ SessionIdle
    /\ ObjectIdle

CallEnsureFeasibility ==
    /\ IsPending(ret)
    /\ ret' = ensure_unique_pair_feasibility(args.num_players,
                                             args.requested_rounds)
    /\ UNCHANGED <<args, playVars, sessionVars, objectVars>>

FeasNext == CallEnsureFeasibility

SpecFeas == FeasInit /\ [][FeasNext]_vars

(***************************************************************************)
(* Specification SpecDraw: draw_scenario_for_groups for 0 .. MaxDrawGroups *)
(* groups and every shuffle outcome of the catalogue, with the shipped     *)
(* TREATMENTS or with no arm configured.                                   *)
(***************************************************************************)
Catalogues == {TREATMENTS, <<>>}

DrawInit ==
    /\ \E ng \in 0..MaxDrawGroups :
         \E catalogue \in Catalogues :
            \E shuffle \in ShuffleOutcomes(Len(catalogue)) :
               args = [num_groups |-> ng, shuffle |-> shuffle,
                       catalogue |-> catalogue]
    /\ ret = Pending
    /\ PlayIdle
    /\ SessionIdle
    /\ ObjectIdle

CallDrawScenario ==
    /\ IsPending(ret)
    /\ ret' = draw_scenario_outcome(args.catalogue, args.num_groups, args.shuffle)
    /\ UNCHANGED <<args, playVars, sessionVars, objectVars>>

DrawNext == CallDrawScenario

SpecDraw == DrawInit /\ [][DrawNext]_vars

(***************************************************************************)
(* Specification SpecPayoff: one cournot_shared_risk group plays a round   *)
(* (Decision page of each player, then the wait page runs                  *)
(* set_group_payoffs), or _prepare_scenario is applied to a scenario of    *)
(* ai_growth_risk.                                                         *)
(***************************************************************************)
\* a group as creating_session leaves it, and its two players
NewGroup(arm) ==
    [treatment |-> assign_treatment_to_group(arm),
     runtime_choice |-> << <<>>, <<>> >>,
     survival |-> <<0, 0>>,
     consumption |-> <<0, 0>>,
     expected_utility |-> <<0, 0>>,
     payoff |-> <<0, 0>>,
     payoffs_set |-> FALSE]

RECURSIVE SeqsUpTo(_, _)
\* the sequences of at most k elements of S
SeqsUpTo(S, k) ==
    IF k = 0 THEN {<<>>}
    ELSE LET shorter == SeqsUpTo(S, k - 1)
         IN shorter \cup {Append(q, x) : q \in shorter, x \in S}

\* the runtime menus: the menu of the scenario, or options built from
\* MenuRuntimes
Menus(scenario) ==
    {scenario.runtime_menu} \cup
    {[k \in DOMAIN rs |-> [id |-> MenuIds[k], runtime |-> rs[k]]] :
        rs \in SeqsUpTo(MenuRuntimes, MaxMenuLen)}

PayoffInit ==
    /\ SessionIdle
    /\ ObjectIdle
    /\ \/ /\ \E arm \in Range(TREATMENTS) : group = NewGroup(arm)
          /\ PureIdle
       \/ /\ \E scenario \in Range(SCENARIOS) :
               \E menu \in Menus(scenario) :
                  args = [base_params |-> scenario.base_params,
                          runtime_menu |-> menu,
                          token_floor |-> scenario.token_floor,
                          token_scale |-> scenario.token_scale]
          /\ ret = Pending
          /\ PlayIdle

\* the Decision page: player i submits a runtime
Decision(i) ==
    /\ InUse(group)
    /\ group.runtime_choice[i] = <<>>
    /\ \E T \in RuntimeChoices :
          group' = [group EXCEPT !.runtime_choice[i] = <<T>>]
    /\ UNCHANGED <<pureVars, sessionVars, objectVars>>

\* WaitForResults.after_all_players_arrive
AfterAllPlayersArrive ==
    /\ InUse(group)
    /\ \A i \in 1..2 : group.runtime_choice[i] # <<>>
    /\ ~group.payoffs_set
    /\ group' = set_group_payoffs(group)
    /\ UNCHANGED <<pureVars, sessionVars, objectVars>>

CallPrepareScenario ==
    /\ InUse(args)
    /\ IsPending(ret)
    /\ ret' = prepare_scenario(args.base_params, args.runtime_menu,
                               args.token_floor, args.token_scale)
    /\ UNCHANGED <<args, playVars, sessionVars, objectVars>>

PayoffNext ==
    \/ \E i \in 1..2 : Decision(i)
    \/ AfterAllPlayersArrive
    \/ CallPrepareScenario

SpecPayoff == PayoffInit /\ [][PayoffNext]_vars

(***************************************************************************)
(* ai_growth_risk: Group.runtime_for_choice and Group.set_payoffs          *)
(***************************************************************************)
RECURSIVE SeqSum(_)
SeqSum(xs) == IF xs = <<>> THEN 0 ELSE xs[1] + SeqSum(Tail(xs))

\* the runtime of the first option, whatever was chosen
RuntimeOfDefault(options, choice_id) == Returned(options[1].runtime)

\* Group.runtime_for_choice: the runtime of the first option with that id
RuntimeOrDefault(options, choice_id) ==
    IF \E k \in DOMAIN options : options[k].id = choice_id
    THEN Returned(options[CHOOSE k \in DOMAIN options :
                            /\ options[k].id = choice_id
                            /\ \A j \in 1..(k - 1) : options[j].id # choice_id].runtime)
    ELSE Returned(options[1].runtime)

runtime_for_choice(options, choice_id) ==
    IF \E k \in DOMAIN options : options[k].id = choice_id
    THEN LET first == CHOOSE k \in DOMAIN options :
                         /\ options[k].id = choice_id
                         /\ \A j \in 1..(k - 1) : options[j].id # choice_id
         IN Returned(options[first].runtime)
    ELSE Raised(ValueError)

\* tokens measured from the benchmark's expected utility, without the clamp
CollectiveTokensFromOptimum(fields, expected_utility) ==
    fields.token_floor
        + Mul(fields.token_scale, expected_utility - fields.optimal_expected_utility)

\* shifted_expected = max(expected_utility - self.min_expected_utility, 0);
\* tokens = self.token_floor + self.token_scale * shifted_expected
CollectiveTokens(fields, expected_utility) ==
    fields.token_floor
        + Mul(fields.token_scale,
              Max(expected_utility - fields.min_expected_utility, 0))

\* what set_payoffs computes from the collective runtime
CollectiveOutcome(fields, runtime) ==
    LET consumption_ == Mul(fields.c0, Exp(Mul(fields.g, runtime)))
        survival_prob == Exp(-Mul(fields.delta, runtime))
        expected_utility ==
            Mul(survival_prob, Utility_u(fields.gamma, fields.ubar, consumption_))
    IN [runtime |-> runtime,
        consumption |-> consumption_,
        survival_prob |-> survival_prob,
        extinction_prob |-> FP - survival_prob,
        expected_utility |-> expected_utility,
        tokens |-> CollectiveTokens(fields, expected_utility)]

\* the second loop of set_payoffs: every player gets the collective outcome
PlayersPaid(players, runtimes, fields, outcome) ==
    [i \in DOMAIN players |->
        [players[i] EXCEPT
            !.runtime_years = <<runtimes[i]>>,
            !.token_payoff = <<outcome.tokens>>,
            !.realized_consumption = <<outcome.consumption>>,
            !.realized_survival_prob = <<outcome.survival_prob>>,
            !.realized_extinction_prob = <<outcome.extinction_prob>>,
            !.realized_expected_utility = <<outcome.expected_utility>>,
            !.runtime_gap = <<outcome.runtime - fields.optimal_runtime>>]]

\* runtime = sum(runtimes) / len(runtimes), then the group and the players
GroupPaid(grp, runtimes) ==
    [grp EXCEPT
        !.collective = <<CollectiveOutcome(grp.fields, SeqSum(runtimes) \div Len(runtimes))>>,
        !.players = PlayersPaid(grp.players, runtimes, grp.fields,
                        CollectiveOutcome(grp.fields, SeqSum(runtimes) \div Len(runtimes))),
        !.payoffs_set = TRUE]

RECURSIVE RuntimeLoop(_, _, _, _)
\* the first loop of set_payoffs, from player i on: runtime_for_choice of
\* the player's runtime_choice is written to runtime_years and collected;
\* the loop stops at the first choice runtime_for_choice raises on
RuntimeLoop(options, players, i, runtimes) ==
    IF i > Len(players)
    THEN [players |-> players, runtimes |-> runtimes, outcome |-> Returned(None)]
    ELSE IF IsRaised(runtime_for_choice(options, players[i].runtime_choice))
    THEN [players |-> players, runtimes |-> runtimes,
          outcome |-> runtime_for_choice(options, players[i].runtime_choice)]
    ELSE RuntimeLoop(options,
            [players EXCEPT ![i].runtime_years =
                <<runtime_for_choice(options, players[i].runtime_choice).value>>],
            i + 1,
            Append(runtimes,
                   runtime_for_choice(options, players[i].runtime_choice).value))

\* set_payoffs after its first loop: the error is raised, or the payoffs
\* are computed from the runtimes
AfterRuntimeLoop(grp, loop) ==
    IF IsRaised(loop.outcome)
    THEN [group |-> [grp EXCEPT !.players = loop.players],
          outcome |-> loop.outcome]
    ELSE [group |-> GroupPaid([grp EXCEPT !.players = loop.players], loop.runtimes),
          outcome |-> Returned(None)]

\* Group.set_payoffs: the group it leaves, and its return or its error
set_payoffs(grp) ==
    AfterRuntimeLoop(grp,
        RuntimeLoop(grp.fields.runtime_choices_blob, grp.players, 1, <<>>))

(***************************************************************************)
(* Specification SpecAIPlay: one ai_growth_risk group plays its round: the *)
(* Decision page of each player, then set_payoffs.                         *)
(***************************************************************************)
\* a player before set_payoffs, with the defaults creating_session gave it
NewAIPlayer(defaults) ==
    [runtime_choice |-> defaults.runtime_choice,
     runtime_years |-> defaults.runtime_years,
     token_payoff |-> <<>>,
     realized_consumption |-> <<>>,
     realized_survival_prob |-> <<>>,
     realized_extinction_prob |-> <<>>,
     realized_expected_utility |-> <<>>,
     runtime_gap |-> <<>>]

\* the group created (a group of creating_session) and its players;
\* submitted is what each player has submitted on the Decision page
AIGroupOf(created) ==
    [fields |-> created.fields[1],
     players |-> [i \in DOMAIN created.players |->
                    NewAIPlayer(DefaultChoices(created.players, <<created>>)[i])],
     submitted |-> [i \in DOMAIN created.players |-> <<>>],
     collective |-> <<>>,
     payoffs_set |-> FALSE]

\* a group of two players as creating_session leaves it for a scenario
NewAIGroup(scenario) ==
    AIGroupOf(GroupWithScenario([players |-> Identity(players_per_group),
                                 fields |-> <<>>], scenario))

AIPlayInit ==
    /\ \E scenario \in Range(SCENARIOS) :
         \E menu \in Menus(scenario) \ {<<>>} :
            group = NewAIGroup([scenario EXCEPT !.runtime_menu = menu])
    /\ PureIdle
    /\ SessionIdle
    /\ ObjectIdle

\* the Decision page: player i submits the id of a menu option
AIDecision(i) ==
    /\ group.submitted[i] = <<>>
    /\ \E k \in DOMAIN group.fields.runtime_choices_blob :
          group' = [group EXCEPT
                      !.players[i].runtime_choice =
                          group.fields.runtime_choices_blob[k].id,
                      !.submitted[i] = <<group.fields.runtime_choices_blob[k].id>>]
    /\ UNCHANGED <<pureVars, sessionVars, objectVars>>

\* the wait page after Decision: set_payoffs runs once all have submitted
AISetPayoffs ==
    /\ \A i \in DOMAIN group.submitted : group.submitted[i] # <<>>
    /\ ~group.payoffs_set
    /\ group' = set_payoffs(group).group
    /\ UNCHANGED <<pureVars, sessionVars, objectVars>>

AIPlayNext ==
    \/ \E i \in DOMAIN group.players : AIDecision(i)
    \/ AISetPayoffs

SpecAIPlay == AIPlayInit /\ [][AIPlayNext]_vars

(***************************************************************************)
(* simulations.runner: _augment_rows and _write_csv.  A dict is the        *)
(* sequence of its items in insertion order, each a key and a value.       *)
(***************************************************************************)
DictKeys(d) == [i \in DOMAIN d |-> d[i].key]

HasKey(d, key) == \E i \in DOMAIN d : d[i].key = key

\* d[key] = value: an existing key keeps its position, a new key is last
DictSet(d, key, value) ==
    IF HasKey(d, key)
    THEN [i \in DOMAIN d |->
            IF d[i].key = key THEN [key |-> key, value |-> value] ELSE d[i]]
    ELSE Append(d, [key |-> key, value |-> value])

RECURSIVE DictUpdate(_, _, _)
\* d.update(other), from item i of other on
DictUpdate(d, other, i) ==
    IF i > Len(other)
    THEN d
    ELSE DictUpdate(DictSet(d, other[i].key, other[i].value), other, i + 1)

\* combined = dict(row); combined.update(metadata)
CombinedRowFirst(metadata, row) == DictUpdate(row, metadata, 1)

\* combined = dict(metadata); combined.update(row)
Combined(metadata, row) == DictUpdate(metadata, row, 1)

augment_rows(rows, metadata) ==
    [i \in DOMAIN rows |-> Combined(metadata, rows[i])]

RECURSIVE FieldNamesOfRow(_, _, _)
\* the inner loop of _write_csv over the keys of one row, from key j on
FieldNamesOfRow(fieldnames, keys, j) ==
    IF j > Len(keys)
    THEN fieldnames
    ELSE FieldNamesOfRow(IF keys[j] \in Range(fieldnames)
                         THEN fieldnames
                         ELSE Append(fieldnames, keys[j]),
                         keys, j + 1)

RECURSIVE FieldNames(_, _, _)
\* the outer loop of _write_csv, from row i on
FieldNames(fieldnames, rows, i) ==
    IF i > Len(rows)
    THEN fieldnames
    ELSE FieldNames(FieldNamesOfRow(fieldnames, DictKeys(rows[i]), 1), rows, i + 1)

\* _write_csv: the header it writes, or its error on an empty dataset
write_csv(rows) ==
    IF Len(rows) = 0
    THEN Raised(ValueError)
    ELSE Returned(FieldNames(<<>>, rows, 1))

(***************************************************************************)
(* Specification SpecCsv: _augment_rows is applied to up to MaxCsvRows     *)
(* rows and a metadata dict, each of up to MaxCsvKeys keys, and _write_csv *)
(* to the rows it returns.                                                 *)
(***************************************************************************)
MaxCsvKeys == 2
MaxCsvRows == 2

CsvKeys == {"experiment", "delta", "T_star"}

\* the dicts with up to MaxCsvKeys distinct keys, all holding value
DictsOf(value) ==
    {[i \in DOMAIN keys |-> [key |-> keys[i], value |-> value]] :
        keys \in {ks \in SeqsUpTo(CsvKeys, MaxCsvKeys) :
                    \A i \in DOMAIN ks : \A j \in DOMAIN ks :
                        ks[i] = ks[j] => i = j}}

CsvInit ==
    /\ \E metadata \in DictsOf("of metadata") :
         \E rows \in SeqsUpTo(DictsOf("of row"), MaxCsvRows) :
            args = [fn |-> "_augment_rows", rows |-> rows, metadata |-> metadata]
    /\ ret = Pending
    /\ PlayIdle
    /\ SessionIdle
    /\ ObjectIdle

CallAugmentRows ==
    /\ args.fn = "_augment_rows"
    /\ IsPending(ret)
    /\ ret' = Returned(augment_rows(args.rows, args.metadata))
    /\ UNCHANGED <<args, playVars, sessionVars, objectVars>>

\* _write_csv(output_path, rows) with the rows _augment_rows returned
CallWriteCsv ==
    /\ args.fn = "_augment_rows"
    /\ IsReturned(ret)
    /\ args' = [fn |-> "_write_csv", rows |-> ret.value,
                metadata |-> args.metadata, experiment_rows |-> args.rows]
    /\ ret' = write_csv(ret.value)
    /\ UNCHANGED <<playVars, sessionVars, objectVars>>

CsvNext ==
    \/ CallAugmentRows
    \/ CallWriteCsv

SpecCsv == CsvInit /\ [][CsvNext]_vars

(***************************************************************************)
(* Specification SpecSetPayoffs: Group.set_payoffs is called on a group    *)
(* whose players hold any runtime_choice, an id of the menu or not, or     *)
(* Group.runtime_for_choice is called with such a choice.                  *)
(***************************************************************************)
\* a runtime_choice that is no id of any menu
UnknownChoice == "unlisted"

OptionIds(options) == {options[k].id : k \in DOMAIN options}

\* the group with the players' runtime_choice set to choices
WithChoices(grp, choices) ==
    [grp EXCEPT !.players =
        [i \in DOMAIN grp.players |->
            [grp.players[i] EXCEPT !.runtime_choice = choices[i]]]]

\* the groups creating_session leaves, for every scenario and menu
GroupsOfScenario(scenario) ==
    {NewAIGroup([scenario EXCEPT !.runtime_menu = menu]) :
        menu \in Menus(scenario) \ {<<>>}}

CreatedGroups == UNION {GroupsOfScenario(scenario) : scenario \in Range(SCENARIOS)}

SetPayoffsInit ==
    /\ \E grp \in CreatedGroups :
          \/ /\ \E choices \in [DOMAIN grp.players ->
                        OptionIds(grp.fields.runtime_choices_blob)
                            \cup {UnknownChoice}] :
                   group = WithChoices(grp, choices)
             /\ args = [fn |-> "set_payoffs", before |-> group]
          \/ /\ \E choice_id \in OptionIds(grp.fields.runtime_choices_blob)
                                    \cup {UnknownChoice} :
                   args = [fn |-> "runtime_for_choice",
                           options |-> grp.fields.runtime_choices_blob,
                           choice_id |-> choice_id]
             /\ PlayIdle
    /\ ret = Pending
    /\ SessionIdle
    /\ ObjectIdle

CallSetPayoffs ==
    /\ args.fn = "set_payoffs"
    /\ IsPending(ret)
    /\ group' = set_payoffs(group).group
    /\ ret' = set_payoffs(group).outcome
    /\ UNCHANGED <<args, sessionVars, objectVars>>

CallRuntimeForChoice ==
    /\ args.fn = "runtime_for_choice"
    /\ IsPending(ret)
    /\ ret' = runtime_for_choice(args.options, args.choice_id)
    /\ UNCHANGED <<args, playVars, sessionVars, objectVars>>

SetPayoffsNext ==
    \/ CallSetPayoffs
    \/ CallRuntimeForChoice

SpecSetPayoffs == SetPayoffsInit /\ [][SetPayoffsNext]_vars

(***************************************************************************)
(* Specification SpecSweep: a SimpleAIGrowthRiskModel or a                 *)
(* DynamicAIGrowthRiskModel is built, then sweeps are called on it, one    *)
(* after the other.  args is the last call (with the object's fields       *)
(* before it), ret the rows it returned.                                   *)
(***************************************************************************)
SIMPLE == "SimpleAIGrowthRiskModel"
DYNAMIC == "DynamicAIGrowthRiskModel"

\* SimpleModelConfig and DynamicModelConfig of simulations/runner.py
SimpleModelConfig ==
    [c0 |-> 1000, g |-> 100, delta_ |-> 10, gamma |-> 2000, target_v |-> 6000]
DynamicModelConfig ==
    [c0 |-> 1000, N0 |-> 1000, gamma |-> 2000, target_v |-> 6000,
     rho_minus_b |-> 10, g0 |-> 20, m0 |-> 10]

\* the parameters a SimpleAIGrowthRiskModel is built from: the runner's
\* config and the scenarios of ai_growth_risk
SimpleParams ==
    {SimpleModelConfig} \cup {SCENARIOS[k].base_params : k \in DOMAIN SCENARIOS}

\* an object just built: params are the constructor's arguments
NewInstance(class, params, self) ==
    [class |-> class, params |-> params, self |-> self, calls |-> 0]

SweepInit ==
    /\ \/ \E params \in SimpleParams :
            instance = NewInstance(SIMPLE, params, SimpleAIGrowthRiskModel(params))
       \/ instance = NewInstance(DYNAMIC, DynamicModelConfig,
                                 DynamicAIGrowthRiskModel(DynamicModelConfig))
    /\ PureIdle
    /\ PlayIdle
    /\ SessionIdle

\* a sweep called with call (its name and arguments) ends in result
SweepEnds(call, result) ==
    /\ args' = call
    /\ ret' = Returned(result.out)
    /\ instance' = [instance EXCEPT !.self = result.self, !.calls = @ + 1]
    /\ UNCHANGED <<playVars, sessionVars>>

CallOverDelta ==
    /\ instance.class = SIMPLE
    /\ instance.calls < MaxSweepCalls
    /\ \E deltas \in SeqsUpTo(DeltaGrid, MaxGridLen) :
          SweepEnds([method |-> "comparative_statics_over_delta",
                     grid |-> deltas, before |-> instance.self],
                    comparative_statics_over_delta(instance.self, deltas))

CallOverG ==
    /\ instance.class = SIMPLE
    /\ instance.calls < MaxSweepCalls
    /\ \E gs \in SeqsUpTo(GrowthGrid, MaxGridLen) :
          SweepEnds([method |-> "comparative_statics_over_g",
                     grid |-> gs, before |-> instance.self],
                    comparative_statics_over_g(instance.self, gs))

CallSweepMortality ==
    /\ instance.class = DYNAMIC
    /\ instance.calls < MaxSweepCalls
    /\ \E g_ai \in AIGrowthGrid :
       \E m_vals \in SeqsUpTo(AIMortalityGrid, MaxGridLen) :
          SweepEnds([method |-> "sweep_mortality", grid |-> m_vals,
                     fixed |-> g_ai, before |-> instance.self],
                    sweep_mortality(instance.self, g_ai, m_vals))

CallSweepGrowth ==
    /\ instance.class = DYNAMIC
    /\ instance.calls < MaxSweepCalls
    /\ \E m_ai \in AIMortalityGrid :
       \E g_vals \in SeqsUpTo(AIGrowthGrid, MaxGridLen) :
          SweepEnds([method |-> "sweep_growth", grid |-> g_vals,
                     fixed |-> m_ai, before |-> instance.self],
                    sweep_growth(instance.self, g_vals, m_ai))

SweepNext ==
    \/ CallOverDelta
    \/ CallOverG
    \/ CallSweepMortality
    \/ CallSweepGrowth

SpecSweep == SweepInit /\ [][SweepNext]_vars

(***************************************************************************)
(* Specification SpecSurvival: survival_probability is computed at         *)
(* (T1, T2) and again with one of the two runtimes raised.                 *)
(***************************************************************************)
\* the arms of TREATMENTS, and the first arm without curvature (kappa = 0)
SurvivalArms ==
    Range(TREATMENTS) \cup {[TREATMENTS[1] EXCEPT !.kappa = 0]}

RuntimeYears == {FP * y : y \in 0..MaxRuntimeYears}

SurvivalInit ==
    /\ \E arm \in SurvivalArms :
       \E T1, T2, more \in RuntimeYears :
       \E raised \in {1, 2} :
          /\ more > (IF raised = 1 THEN T1 ELSE T2)
          /\ args = [arm |-> arm, T1 |-> T1, T2 |-> T2,
                     raised |-> raised, more |-> more]
    /\ ret = Pending
    /\ PlayIdle
    /\ SessionIdle
    /\ ObjectIdle

\* survival_probability(T1, T2, arm), then with the raised runtime
CallSurvivalProbability ==
    /\ InUse(args)
    /\ IsPending(ret)
    /\ ret' = Returned(
          [base |-> survival_probability(args.T1, args.T2, args.arm),
           raised |-> IF args.raised = 1
                      THEN survival_probability(args.more, args.T2, args.arm)
                      ELSE survival_probability(args.T1, args.more, args.arm)])
    /\ UNCHANGED <<args, playVars, sessionVars, objectVars>>

SurvivalNext == CallSurvivalProbability

SpecSurvival == SurvivalInit /\ [][SurvivalNext]_vars

(***************************************************************************)
(* Specification SpecUtility: one call of crra_utility (next to            *)
(* Utility.u), of calibrate_ubar_from_v (followed by Utility.v) or of      *)
(* SimpleAIGrowthRiskModel.c_star or of DynamicAIGrowthRiskModel.welfare.   *)
(***************************************************************************)
\* consumption levels, risk aversions, targets and level shifts of the calls
ConsumptionLevels == {500, 1000, 1500, 2000, 3000}
GammaChoices == {500, 1000, 1500, 2000, 3000}
TargetChoices == {3000, 6000}
UbarChoices == {-2000, -1000, 0, 1000, 7000}

\* the level shift of the shared utility at the app's primitives
\* (target_v has its default, 6.0)
SharedUbar == calibrate_ubar_from_v(FIXED.c0, FIXED.gamma, 6000)

\* the objects c_star is called on (exp stays within the fixed-point range
\* in the log branch)
CStarModels ==
    {m \in [c0 : {1000}, g : {100}, delta_ : {10, 50},
            gamma : GammaChoices, ubar : UbarChoices] :
        m.gamma = FP => m.ubar = 7000}

\* the objects welfare is called on: the runner's config, and a gamma below 1
WelfareModels ==
    {DynamicAIGrowthRiskModel([DynamicModelConfig EXCEPT !.gamma = gamma]) :
        gamma \in {500, 2000}}

UtilityInit ==
    /\ \/ \E self \in WelfareModels :
          \E g \in AIGrowthGrid \cup {100} : \E m \in AIMortalityGrid \cup {10} :
            args = [fn |-> "welfare", self |-> self, g |-> g, m |-> m]
       \/ \E c \in ConsumptionLevels : \E ubar \in {0, SharedUbar} :
            args = [fn |-> "crra_utility", c |-> c, ubar |-> ubar]
       \/ \E c0 \in ConsumptionLevels : \E gamma \in GammaChoices :
          \E target_v \in TargetChoices :
            args = [fn |-> "calibrate_ubar_from_v", c0 |-> c0,
                    gamma |-> gamma, target_v |-> target_v]
       \/ \E m \in CStarModels : args = [fn |-> "c_star", self |-> m]
    /\ ret = Pending
    /\ PlayIdle
    /\ SessionIdle
    /\ ObjectIdle

\* crra_utility(c), and Utility(FIXED.gamma, ubar).u(c)
CallCrraUtility ==
    /\ args.fn = "crra_utility"
    /\ IsPending(ret)
    /\ ret' = Returned([crra_utility |-> crra_utility(args.c),
                        u |-> Utility_u(FIXED.gamma, args.ubar, args.c)])
    /\ UNCHANGED <<args, playVars, sessionVars, objectVars>>

\* ubar = calibrate_ubar_from_v(c0, gamma, target_v), then
\* Utility(gamma, ubar).v(c0)
CallCalibrate ==
    /\ args.fn = "calibrate_ubar_from_v"
    /\ IsPending(ret)
    /\ ret' = Returned(
          [ubar |-> calibrate_ubar_from_v(args.c0, args.gamma, args.target_v),
           v |-> Utility_v(args.gamma,
                           calibrate_ubar_from_v(args.c0, args.gamma, args.target_v),
                           args.c0)])
    /\ UNCHANGED <<args, playVars, sessionVars, objectVars>>

CallCStar ==
    /\ args.fn = "c_star"
    /\ IsPending(ret)
    /\ ret' = c_star_outcome(args.self)
    /\ UNCHANGED <<args, playVars, sessionVars, objectVars>>

CallWelfare ==
    /\ args.fn = "welfare"
    /\ IsPending(ret)
    /\ ret' = welfare_outcome(args.self, args.g, args.m)
    /\ UNCHANGED <<args, playVars, sessionVars, objectVars>>

UtilityNext ==
    \/ CallCrraUtility
    \/ CallCalibrate
    \/ CallCStar
    \/ CallWelfare

SpecUtility == UtilityInit /\ [][UtilityNext]_vars

(***************************************************************************)
(* Claims about the schedule.                                              *)
(***************************************************************************)
\* the number of (pair, side) places of round at which id x stands
Appearances(round, x) ==
    Cardinality({<<k, side>> \in (DOMAIN round) \X {1, 2} : round[k][side] = x})

PerfectMatching(round, ids) ==
    /\ Len(round) * 2 = Cardinality(ids)
    /\ \A k \in DOMAIN round : round[k][1] # round[k][2]
    /\ \A x \in ids : Appearances(round, x) = 1

\* the rounds of schedule in which a and b are paired together
RoundsTogether(schedule, a, b) ==
    {r \in DOMAIN schedule :
        \E k \in DOMAIN schedule[r] : {schedule[r][k][1], schedule[r][k][2]} = {a, b}}

EvenCall == Len(args.players) >= 2 /\ Len(args.players) % 2 = 0

\* C1: for every even n >= 2 and every shuffle outcome,
\* build_round_robin_schedule returns exactly n-1 rounds and every round is
\* a perfect matching of the participant ids: n/2 pairs, the two ids of a
\* pair differ, every id appears in exactly one pair of the round.
C1_RoundsArePerfectMatchings ==
    (IsReturned(ret) /\ EvenCall) =>
        /\ Len(ret.value) = Len(args.players) - 1
        /\ \A r \in DOMAIN ret.value :
              PerfectMatching(ret.value[r], Range(args.players))

C1_Witness ==
    /\ IsReturned(ret)
    /\ Len(args.players) = 6
    /\ args.shuffle # Identity(6)
    /\ Len(ret.value) = 5

\* C2: for every even n >= 2 and every shuffle outcome, each unordered pair
\* of participant ids is paired in exactly one of the n-1 rounds.
C2_EveryPairExactlyOnce ==
    (IsReturned(ret) /\ EvenCall) =>
        \A a \in Range(args.players) : \A b \in Range(args.players) :
            a # b => Cardinality(RoundsTogether(ret.value, a, b)) = 1

\* the 4-participant example: 3 rounds, the 6 pairs once each
C2_Witness ==
    /\ IsReturned(ret)
    /\ args.players = <<1, 2, 3, 4>>
    /\ Len(ret.value) = 3
    /\ \A a \in 1..4 : \A b \in 1..4 :
          a < b => Cardinality(RoundsTogether(ret.value, a, b)) = 1

(***************************************************************************)
(* Claims about the feasibility check.                                     *)
(***************************************************************************)
\* C4: ensure_unique_pair_feasibility raises ValueError if and only if
\* requested_rounds > num_players - 1, and returns without error otherwise.
C4_RaisesIffTooManyRounds ==
    ~IsPending(ret) =>
        /\ (IsRaised(ret) /\ ret.error = ValueError)
              <=> (args.requested_rounds > args.num_players - 1)
        /\ IsReturned(ret) <=> (args.requested_rounds <= args.num_players - 1)

\* the boundary: exactly n-1 rounds requested is accepted
C4_Witness ==
    /\ IsReturned(ret)
    /\ args.num_players = 6
    /\ args.requested_rounds = 5

(***************************************************************************)
(* Claims about the payoffs of a group and the tokenised menu.             *)
(***************************************************************************)
PayoffsSet == InUse(group) /\ group.payoffs_set
Prepared == InUse(args) /\ IsReturned(ret)

\* C6: when set_group_payoffs has run, both members of the group have the
\* same survival probability, and it is the one computed from
\* Q = omega1*T1 + omega2*T2 with T1 the runtime of the group's first player
\* and T2 that of the second, for every treatment arm.
C6_SharedSurvival ==
    PayoffsSet =>
        LET T1 == group.runtime_choice[1][1]
            T2 == group.runtime_choice[2][1]
            arm == group_treatment_arm(group.treatment)
            shared == survival_probability(T1, T2, arm)
        IN /\ group.survival[1] = group.survival[2]
           /\ group.survival[1] = shared
           /\ group.survival[2] = shared

\* C10: whenever expected utilities are tokenised against their own
\* minimum (the two outcomes of set_group_payoffs, the token_preview of the
\* menu options of _prepare_scenario), the element with the minimum
\* expected utility gets exactly token_floor and every element gets at
\* least token_floor.
C10_MinimumGetsFloor ==
    /\ PayoffsSet =>
          \A i \in 1..2 :
             /\ group.payoff[i] >= FIXED.token_floor
             /\ (\A j \in 1..2 :
                    group.expected_utility[i] <= group.expected_utility[j])
                  => group.payoff[i] = FIXED.token_floor
    /\ Prepared =>
          LET options == ret.value.options
          IN \A k \in DOMAIN options :
                /\ options[k].token_preview >= args.token_floor
                /\ (\A j \in DOMAIN options :
                       options[k].expected_utility <= options[j].expected_utility)
                     => options[k].token_preview = args.token_floor

\* the baseline menu: the worst option (the longest runtime) previews the
\* floor, the others more
C10_Witness ==
    /\ Prepared
    /\ args.runtime_menu = SCENARIOS[1].runtime_menu
    /\ ret.value.options[3].token_preview = args.token_floor
    /\ ret.value.options[1].token_preview > args.token_floor
    /\ ret.value.options[2].token_preview > args.token_floor

(***************************************************************************)
(* Claims about the treatment draw.                                        *)
(***************************************************************************)
\* the number of positions of xs that hold x
Count(xs, x) == Cardinality({i \in DOMAIN xs : xs[i] = x})

\* C9: draw_scenario_for_groups returns exactly num_groups arms, each a
\* member of TREATMENTS; element i is perm[i mod k] for one ordering perm of
\* the catalogue; the numbers of groups of any two arms differ by at most 1.
C9_ShuffleOnceRepeatTruncate ==
    IsReturned(ret) =>
        LET out == ret.value
            k == Len(TREATMENTS)
        IN /\ Len(out) = args.num_groups
           /\ \A i \in DOMAIN out : out[i] \in Range(TREATMENTS)
           /\ \E perm \in PermSeqs(Range(TREATMENTS)) :
                 \A i \in DOMAIN out : out[i] = perm[((i - 1) % k) + 1]
           /\ \A a \in Range(TREATMENTS) : \A b \in Range(TREATMENTS) :
                 Count(out, a) - Count(out, b) <= 1

\* more groups than arms, not a multiple of the catalogue: the draw wraps
\* around and is truncated
C9_Witness ==
    /\ IsReturned(ret)
    /\ args.num_groups = 5
    /\ args.shuffle = <<3, 1, 2>>
    /\ ret.value[1].label = "Asymmetric influence"
    /\ ret.value[4] = ret.value[1]
    /\ ret.value[5] = ret.value[2]

(***************************************************************************)
(* Claims about creating_session                                           *)
(***************************************************************************)
\* the 2-player groups of round r of session sess
GroupsOf(sess, r) == sess.groups[r]

InGroup(grp, i) == \E k \in DOMAIN grp.players : grp.players[k] = i

GroupedTogether(sess, r, i, j) ==
    \E k \in DOMAIN GroupsOf(sess, r) :
        InGroup(GroupsOf(sess, r)[k], i) /\ InGroup(GroupsOf(sess, r)[k], j)

FeasibleCournot(cfg) ==
    /\ cfg.app = COURNOT
    /\ cfg.num_participants % 2 = 0
    /\ cfg.num_rounds <= cfg.num_participants - 1

\* C3: in a cournot_shared_risk session with an even number n of
\* participants and num_rounds <= n-1, creating_session does not fail, and
\* once it has run for rounds 1..num_rounds every participant is in exactly
\* one group of each round, that group has 2 players, and no two
\* participants are grouped together in more than one round.
C3_SessionMeetsNewPartners ==
    \A c \in DOMAIN sessions :
        FeasibleCournot(config) =>
            /\ sessions[c].status # "failed"
            /\ sessions[c].status = "created" =>
                /\ \A r \in 1..config.num_rounds :
                     /\ \A k \in DOMAIN GroupsOf(sessions[c], r) :
                          Len(GroupsOf(sessions[c], r)[k].players) = 2
                     /\ \A i \in 1..config.num_participants :
                          Cardinality({k \in DOMAIN GroupsOf(sessions[c], r) :
                                        InGroup(GroupsOf(sessions[c], r)[k], i)}) = 1
                          /\ \A k \in DOMAIN GroupsOf(sessions[c], r) :
                                Count(GroupsOf(sessions[c], r)[k].players, i) <= 1
                /\ \A i, j \in 1..config.num_participants :
                     i # j =>
                        Cardinality({r \in 1..config.num_rounds :
                                       GroupedTogether(sessions[c], r, i, j)}) <= 1

C3_Witness ==
    /\ InUse(config)
    /\ FeasibleCournot(config)
    /\ config.num_participants = 4
    /\ config.num_rounds = 3
    /\ sessions[1].status = "created"

\* C5: a session created from the shipped config 'cournot_shared_risk_lab'
\* (6 participants, 6 rounds) is set up without creating_session raising.
C5_ShippedConfigCreates ==
    \A c \in DOMAIN sessions :
        config = ShippedConfig => sessions[c].status # "failed"

\* what two creations of a session have both produced so far
SameResults(s1, s2) ==
    /\ \A r \in DOMAIN s1.groups :
          (r < s1.next_round /\ r < s2.next_round) => s1.groups[r] = s2.groups[r]
    /\ (s1.vars # <<>> /\ s2.vars # <<>>) => s1.vars = s2.vars
    /\ (s1.status = "created" /\ s2.status = "created") => s1.players = s2.players

\* C7: two creations of a session from the same config with a random_seed
\* produce the same pairing schedule, the same group matrix in every round
\* and the same treatment arm or scenario for every group in every round.
C7_SameSeedSameSession ==
    \A c1, c2 \in DOMAIN sessions :
        config.random_seed # <<>> => SameResults(sessions[c1], sessions[c2])

C7_Witness ==
    /\ InUse(config)
    /\ config.app = COURNOT
    /\ config.random_seed # <<>>
    /\ config.num_participants = 4
    /\ config.num_rounds = 3
    /\ DOMAIN sessions = {1, 2}
    /\ sessions[1].status = "created"
    /\ sessions[2].status = "created"

\* C8: creating_session never shuffles with a generator that was not
\* seeded from an explicitly supplied seed.
C8_NeverUnseeded ==
    \A c \in DOMAIN sessions : sessions[c].unseeded_shuffles = 0

(***************************************************************************)
(* Claims about a round of ai_growth_risk                                  *)
(***************************************************************************)
\* the runtimes of the options with the ids the two players submitted
SubmittedRuntime(i) ==
    CHOOSE T \in {group.fields.runtime_choices_blob[k].runtime :
                    k \in DOMAIN group.fields.runtime_choices_blob} :
        \E k \in DOMAIN group.fields.runtime_choices_blob :
            /\ group.fields.runtime_choices_blob[k].id = group.submitted[i][1]
            /\ group.fields.runtime_choices_blob[k].runtime = T

MenuRuntimesOfGroup ==
    {group.fields.runtime_choices_blob[k].runtime :
        k \in DOMAIN group.fields.runtime_choices_blob}

\* C11: after set_payoffs, for every combination of menu choices of the two
\* players, every player's token_payoff is at least the group's token_floor.
C11_TokensAtLeastFloor ==
    (InUse(group) /\ group.payoffs_set) =>
        \A i \in DOMAIN group.players :
            group.players[i].token_payoff[1] >= group.fields.token_floor

\* the two players chose different runtimes and their average is not a
\* runtime of the menu
C11_Witness ==
    /\ InUse(group)
    /\ group.payoffs_set
    /\ group.collective[1].runtime \notin MenuRuntimesOfGroup
    /\ group.players[1].token_payoff[1] >= group.fields.token_floor

\* C12: after a player has submitted an option id and set_payoffs has run,
\* the player's runtime_years is the runtime of the option with that id.
C12_RuntimeYearsIsChosenRuntime ==
    (InUse(group) /\ group.payoffs_set) =>
        \A i \in DOMAIN group.players :
            group.players[i].runtime_years = <<SubmittedRuntime(i)>>

\* a player chose an option that is not the default, whose runtime differs
\* from the partner's and from the collective runtime
C12_Witness ==
    /\ InUse(group)
    /\ group.payoffs_set
    /\ group.submitted[1][1] # group.fields.runtime_choices_blob[1].id
    /\ group.players[1].runtime_years # group.players[2].runtime_years
    /\ group.players[1].runtime_years # <<group.collective[1].runtime>>
    /\ group.players[1].runtime_years = <<SubmittedRuntime(1)>>

(***************************************************************************)
(* Claims about the sweeps                                                 *)
(***************************************************************************)
SweepReturned(method) ==
    InUse(instance) /\ InUse(args) /\ IsReturned(ret) /\ args.method = method

\* row i of a sweep as the solve at grid[i] gives it, the other parameters
\* being those of the object self
SolveAt(method, self, fixed, x) ==
    CASE method = "comparative_statics_over_delta" ->
            [summary([self EXCEPT !.delta_ = x]) EXCEPT !.delta = x]
      [] method = "comparative_statics_over_g" ->
            [summary([self EXCEPT !.g = x]) EXCEPT !.g = x]
      [] method = "sweep_mortality" ->
            [m_ai |-> x, g_ai |-> fixed, delta_star |-> delta_star(self, fixed, x)]
      [] method = "sweep_growth" ->
            [g_ai |-> x, m_ai |-> fixed, delta_star |-> delta_star(self, x, fixed)]

SweptKey(method, row) ==
    CASE method = "comparative_statics_over_delta" -> row.delta
      [] method = "comparative_statics_over_g" -> row.g
      [] method = "sweep_mortality" -> row.m_ai
      [] method = "sweep_growth" -> row.g_ai

FixedOf(call) == IF "fixed" \in DOMAIN call THEN call.fixed ELSE 0

\* C13: a sweep over a grid of length k returns exactly k rows in grid
\* order: row i carries the swept value grid[i] and is the solve evaluated
\* at grid[i] on the object the sweep was called on.
C13_SweepRowsInGridOrder ==
    (InUse(instance) /\ InUse(args) /\ IsReturned(ret)) =>
        /\ Len(ret.value) = Len(args.grid)
        /\ \A i \in DOMAIN args.grid :
              /\ SweptKey(args.method, ret.value[i]) = args.grid[i]
              /\ ret.value[i] =
                    SolveAt(args.method, args.before, FixedOf(args), args.grid[i])

C13_Witness ==
    /\ SweepReturned("comparative_statics_over_delta")
    /\ Len(args.grid) = 2
    /\ args.grid[1] > args.grid[2]
    /\ Len(ret.value) = 2
    /\ ret.value[1].delta = args.grid[1]
    /\ ret.value[2].delta = args.grid[2]
    /\ ret.value[1].T_star # ret.value[2].T_star

\* the object as it was built
AsBuilt == SimpleAIGrowthRiskModel(instance.params)

\* C14: every row of every comparative_statics call on one object equals
\* the summary of a model freshly built from the construction-time
\* parameters with only the swept parameter set to the grid value.
C14_RowsFromConstructionParameters ==
    (InUse(instance) /\ InUse(args) /\ IsReturned(ret)
        /\ instance.class = SIMPLE) =>
        \A i \in DOMAIN args.grid :
            ret.value[i] = SolveAt(args.method, AsBuilt, 0, args.grid[i])

\* C15: after a comparative_statics call returns, the object's c0, g,
\* delta_, gamma and ubar equal their values before the call.
C15_SweepLeavesModelUnchanged ==
    (InUse(instance) /\ InUse(args) /\ IsReturned(ret)
        /\ instance.class = SIMPLE) =>
        instance.self = args.before

\* C16: at every grid point of a delta or growth sweep (c0 > 0, g > 0,
\* delta > 0, inner > 0) the extinction probability is in [0, 1) and
\* T_star is not negative.
C16_ExtinctionProbInUnitInterval ==
    (InUse(instance) /\ InUse(args) /\ IsReturned(ret)
        /\ instance.class = SIMPLE) =>
        \A i \in DOMAIN ret.value :
            /\ 0 <= ret.value[i].extinction_prob
            /\ ret.value[i].extinction_prob < FP
            /\ ret.value[i].T_star >= 0

(***************************************************************************)
(* Claims about the formulas                                               *)
(***************************************************************************)
\* C17: for kappa >= 0 and positive weights, survival_probability strictly
\* decreases when T1 is raised with T2 held fixed, and when T2 is raised
\* with T1 held fixed.
C17_SurvivalStrictlyDecreasing ==
    (InUse(args) /\ IsReturned(ret) /\ "raised" \in DOMAIN args) =>
        ret.value.raised < ret.value.base

C17_Witness ==
    /\ InUse(args)
    /\ IsReturned(ret)
    /\ "raised" \in DOMAIN args
    /\ args.raised = 2
    /\ args.arm.kappa > 0
    /\ args.T1 > 0
    /\ ret.value.raised < ret.value.base

Called(fn) == InUse(args) /\ "fn" \in DOMAIN args /\ args.fn = fn

\* C18: crra_utility(c) returns the same value as
\* Utility(gamma, ubar).u(c), the ubar level shift included.
C18_CrraUtilityIsSharedUtility ==
    (Called("crra_utility") /\ IsReturned(ret)) =>
        ret.value.crra_utility = ret.value.u

Abs(x) == IF x >= 0 THEN x ELSE -x

\* the rounding of ubar * c0^(gamma-1) on fixed-point reals
RoundTripTolerance(c0, gamma) ==
    IF gamma = FP THEN 0 ELSE Pow(c0, gamma - FP) \div FP + 1

\* C19: Utility(gamma, calibrate_ubar_from_v(c0, gamma, target_v)).v(c0)
\* equals target_v (up to rounding), in the log branch and in the CRRA
\* branch.
C19_CalibrationRoundTrip ==
    (Called("calibrate_ubar_from_v") /\ IsReturned(ret)) =>
        Abs(ret.value.v - args.target_v) <= RoundTripTolerance(args.c0, args.gamma)

C19_Witness ==
    /\ Called("calibrate_ubar_from_v")
    /\ IsReturned(ret)
    /\ args.gamma # FP
    /\ args.c0 # FP
    /\ ret.value.ubar # args.target_v
    /\ Abs(ret.value.v - args.target_v) <= RoundTripTolerance(args.c0, args.gamma)

\* inner = (1/ubar) * (g/delta + 1/(gamma-1)) of the object c_star is
\* called on
InnerOf(self) ==
    Mul(Div(FP, self.ubar), Div(self.g, self.delta_) + Div(FP, self.gamma - FP))

\* C20: c_star() with gamma != 1 and inner <= 0 raises an error; it never
\* returns a value.
C20_CStarRefusesNonPositiveInner ==
    (Called("c_star") /\ ~IsPending(ret) /\ args.self.gamma # FP
        /\ args.self.ubar # 0 /\ InnerOf(args.self) <= 0) =>
        IsRaised(ret)

\* rho_minus_b + m + (gamma - 1) * g of a welfare call
WelfareDenominator ==
    args.self.rho_minus_b + args.m + Mul(args.self.gamma - FP, args.g)

\* C21: welfare(g, m) raises an error whenever
\* rho_minus_b + m + (gamma-1)*g <= 0; it returns no result computed from
\* a non-positive denominator.
C21_WelfareRefusesNonPositiveDenominator ==
    (Called("welfare") /\ ~IsPending(ret) /\ WelfareDenominator <= 0) =>
        IsRaised(ret)

(***************************************************************************)
(* Unknown runtime choices                                                 *)
(***************************************************************************)
\* the players of the group set_payoffs was called on whose runtime_choice
\* is no id of the group's menu
UnknownChoosers ==
    {i \in DOMAIN args.before.players :
        args.before.players[i].runtime_choice
            \notin OptionIds(args.before.fields.runtime_choices_blob)}

\* the runtime of the first option of the menu with the id
RuntimeOfId(options, choice_id) ==
    options[CHOOSE k \in DOMAIN options :
                /\ options[k].id = choice_id
                /\ \A j \in 1..(k - 1) : options[j].id # choice_id].runtime

\* C22: runtime_for_choice(choice_id) returns the runtime of the menu option
\* with that id when the id is in the menu and raises ValueError when it is
\* not; set_payoffs raises that ValueError when a player's choice is not in
\* the menu, computing no collective outcome and no payoff from a default
\* runtime, and returns with every player's own runtime otherwise.
C22_UnknownChoiceRaises ==
    /\ (Called("runtime_for_choice") /\ ~IsPending(ret)) =>
          IF args.choice_id \in OptionIds(args.options)
          THEN ret = Returned(RuntimeOfId(args.options, args.choice_id))
          ELSE ret = Raised(ValueError)
    /\ (Called("set_payoffs") /\ ~IsPending(ret)) =>
          IF UnknownChoosers # {}
          THEN /\ ret = Raised(ValueError)
               /\ ~group.payoffs_set
               /\ group.collective = <<>>
               /\ \A i \in DOMAIN group.players :
                     group.players[i].token_payoff = <<>>
          ELSE /\ ret = Returned(None)
               /\ group.payoffs_set
               /\ \A i \in DOMAIN group.players :
                     group.players[i].runtime_years =
                        <<RuntimeOfId(group.fields.runtime_choices_blob,
                                      group.players[i].runtime_choice)>>

\* set_payoffs has raised for a group whose first player chose a listed
\* option and whose second player's choice is not in the menu
C22_Witness ==
    /\ Called("set_payoffs")
    /\ UnknownChoosers = {2}
    /\ ret = Raised(ValueError)
    /\ ~group.payoffs_set

\* C29: when a player's runtime_choice is no id of the menu, set_payoffs
\* raises and leaves every field of the group and of its players as it was
\* before the call.
C29_FailedSetPayoffsChangesNothing ==
    (Called("set_payoffs") /\ IsRaised(ret)) => group = args.before

(***************************************************************************)
(* Empty catalogues and empty grids                                        *)
(***************************************************************************)
\* C23: with no arm configured, draw_scenario_for_groups fails with the
\* configuration error ValueError, as creating_session of ai_growth_risk
\* does with no scenario configured.
C23_EmptyCatalogueIsValueError ==
    (args.catalogue = <<>> /\ ~IsPending(ret)) => ret = Raised(ValueError)

\* C24: a sweep called with an empty grid raises a configuration error at
\* the call; it does not return an empty sequence.
C24_EmptyGridRaises ==
    (InUse(instance) /\ InUse(args) /\ ~IsPending(ret) /\ Len(args.grid) = 0) =>
        ret = Raised(ValueError)

(***************************************************************************)
(* The CSV header                                                          *)
(***************************************************************************)
\* the keys of the rows handed to _write_csv
KeysOfRows == UNION {Range(DictKeys(args.rows[i])) : i \in DOMAIN args.rows}

\* the first row that has the key, and the key's position in that row
FirstRowWith(key) ==
    CHOOSE i \in DOMAIN args.rows :
        /\ HasKey(args.rows[i], key)
        /\ \A j \in 1..(i - 1) : ~HasKey(args.rows[j], key)

PositionIn(d, key) == CHOOSE i \in DOMAIN d : d[i].key = key

\* key a first occurs before key b in the rows read row by row
OccursFirst(a, b) ==
    \/ FirstRowWith(a) < FirstRowWith(b)
    \/ /\ FirstRowWith(a) = FirstRowWith(b)
       /\ PositionIn(args.rows[FirstRowWith(a)], a)
            < PositionIn(args.rows[FirstRowWith(b)], b)

\* C25: the header _write_csv builds from the rows of _augment_rows holds
\* every key of any row exactly once, in order of first occurrence, and
\* every metadata key comes before every key that is not a metadata key,
\* also when a key of an experiment row is a metadata key.
C25_HeaderMetadataFirst ==
    (Called("_write_csv") /\ IsReturned(ret)) =>
        /\ Range(ret.value) = KeysOfRows
        /\ \A p \in DOMAIN ret.value : \A q \in DOMAIN ret.value :
              /\ ret.value[p] = ret.value[q] => p = q
              /\ p < q => OccursFirst(ret.value[p], ret.value[q])
              /\ (HasKey(args.metadata, ret.value[q])
                    /\ ~HasKey(args.metadata, ret.value[p])) => q < p
        /\ \A i \in DOMAIN args.metadata :
              ret.value[i] = args.metadata[i].key

\* two metadata keys, the second also a key of the first experiment row,
\* which starts with a key of its own; the second row brings another key
C25_Witness ==
    /\ Called("_write_csv")
    /\ IsReturned(ret)
    /\ DictKeys(args.metadata) = <<"experiment", "delta">>
    /\ Len(args.experiment_rows) = 2
    /\ DictKeys(args.experiment_rows[1]) = <<"T_star", "delta">>
    /\ DictKeys(args.experiment_rows[2]) = <<"delta">>
    /\ ret.value = <<"experiment", "delta", "T_star">>
    /\ args.rows[1][2].value = "of row"

(***************************************************************************)
(* Failed and repeated creating_session calls of cournot_shared_risk       *)
(***************************************************************************)
\* creating_session of round r on session sess, for every outcome of the
\* shuffles it could draw
CallsInRound(sess, r) ==
    {cournot_creating_session([sess EXCEPT !.next_round = r], config,
                              ids_shuffle, arm_shuffle) :
        ids_shuffle \in ShuffleOutcomes(config.num_participants),
        arm_shuffle \in ShuffleOutcomes(Len(TREATMENTS))}

\* C26: with an odd number of players creating_session raises ValueError in
\* every round, before a shuffle is drawn, a schedule is built, stored or
\* read, and any group matrix or treatment is set.
C26_OddPlayersRaiseFirst ==
    (InUse(sessions) /\ config.app = COURNOT
        /\ config.num_participants % 2 = 1) =>
        \A c \in DOMAIN sessions :
            /\ sessions[c].status \in {"creating", "failed"}
            /\ sessions[c].status = "failed" => sessions[c].error = ValueError
            /\ sessions[c].vars = <<>>
            /\ sessions[c].groups = NewSession(config).groups
            /\ sessions[c].unseeded_shuffles = 0
            /\ oracle = {}
            /\ \A r \in 1..config.num_rounds :
                  \A call \in CallsInRound(sessions[c], r) :
                     /\ call.draws = <<>>
                     /\ call.session =
                            Failed([sessions[c] EXCEPT !.next_round = r], ValueError)

\* creating_session has failed for three players
C26_Witness ==
    /\ InUse(sessions)
    /\ config.app = COURNOT
    /\ config.num_participants = 3
    /\ config.num_rounds = 2
    /\ sessions[1].status = "failed"
    /\ sessions[1].error = ValueError
    /\ sessions[1].next_round = 1

\* C27: when num_rounds exceeds n - 1 for the n (even) participants,
\* creating_session of round 1 raises ValueError before the schedule is
\* written to session.vars and before a group matrix or a treatment field
\* is set: vars, groups and players are as they were before the call.
C27_InfeasibleRoundsChangeNothing ==
    (InUse(sessions) /\ config.app = COURNOT
        /\ ~OddPlayers(config.num_participants)
        /\ config.num_rounds > config.num_participants - 1) =>
        \A c \in DOMAIN sessions :
            /\ sessions[c].status \in {"creating", "failed"}
            /\ sessions[c].status = "failed" => sessions[c].error = ValueError
            /\ sessions[c].next_round = 1
            /\ sessions[c].vars = NewSession(config).vars
            /\ sessions[c].groups = NewSession(config).groups
            /\ sessions[c].players = NewSession(config).players

\* four participants and six rounds: round 1 has failed
C27_Witness ==
    /\ InUse(sessions)
    /\ config.app = COURNOT
    /\ config.num_participants = 4
    /\ config.num_rounds = DEFAULT_NUM_ROUNDS
    /\ sessions[1].status = "failed"
    /\ sessions[1].error = ValueError
    /\ sessions[1].vars = <<>>

\* the group matrix of round r of session sess, as pairs
MatrixOf(sess, r) ==
    [k \in DOMAIN sess.groups[r] |-> sess.groups[r][k].players]

\* one creating_session call of session c: session.vars is written only by
\* round 1, is never written again, and the round the call created is
\* grouped by the stored schedule's entry for that round
ScheduleStep(c) ==
    /\ (sessions[c].vars = <<>> /\ sessions'[c].vars # <<>>) =>
            sessions[c].next_round = 1
    /\ sessions[c].vars # <<>> => sessions'[c].vars = sessions[c].vars
    /\ sessions'[c].next_round # sessions[c].next_round =>
            /\ sessions'[c].next_round = sessions[c].next_round + 1
            /\ MatrixOf(sessions'[c], sessions[c].next_round) =
                    [k \in DOMAIN sessions'[c].vars[1][sessions[c].next_round] |->
                        <<sessions'[c].vars[1][sessions[c].next_round][k][1],
                          sessions'[c].vars[1][sessions[c].next_round][k][2]>>]

\* C28: the pairing schedule is written to session.vars once, in round 1;
\* creating_session of every later round r leaves it unchanged and groups
\* the round by its entry r (index r - 1), with or without a random_seed.
C28_ScheduleWrittenOnce ==
    [][config.app = COURNOT => \A c \in DOMAIN sessions : ScheduleStep(c)]_vars

\* a seeded session of four participants has created rounds 1 and 2 from
\* two different entries of the schedule stored in round 1
C28_Witness ==
    /\ InUse(sessions)
    /\ config.app = COURNOT
    /\ config.random_seed # <<>>
    /\ config.num_participants = 4
    /\ config.num_rounds = 3
    /\ sessions[1].next_round = 3
    /\ sessions[1].vars # <<>>
    /\ MatrixOf(sessions[1], 2) = sessions[1].vars[1][2]
    /\ MatrixOf(sessions[1], 1) # MatrixOf(sessions[1], 2)

(***************************************************************************)
(* The bounded optimal runtime                                             *)
(***************************************************************************)
\* the runtimes of the menu _prepare_scenario was called with
RuntimesOfMenu == {args.runtime_menu[k].runtime : k \in DOMAIN args.runtime_menu}

SmallestRuntime == CHOOSE T \in RuntimesOfMenu : \A U \in RuntimesOfMenu : T <= U

LargestRuntime == CHOOSE T \in RuntimesOfMenu : \A U \in RuntimesOfMenu : U <= T

\* C30: for a non-empty menu the bounded_optimal_runtime of
\* _prepare_scenario lies between the smallest and the largest menu
\* runtime, is T_star when T_star is in that range, and is the nearest menu
\* bound otherwise, a negative T_star included.
C30_BoundedOptimalRuntimeInMenuRange ==
    (Prepared /\ "runtime_menu" \in DOMAIN args) =>
        /\ SmallestRuntime <= ret.value.bounded_optimal_runtime
        /\ ret.value.bounded_optimal_runtime <= LargestRuntime
        /\ ret.value.optimal_runtime = ret.value.summary.T_star
        /\ (SmallestRuntime <= ret.value.summary.T_star
                /\ ret.value.summary.T_star <= LargestRuntime) =>
              ret.value.bounded_optimal_runtime = ret.value.summary.T_star
        /\ ret.value.summary.T_star < SmallestRuntime =>
              ret.value.bounded_optimal_runtime = SmallestRuntime
        /\ ret.value.summary.T_star > LargestRuntime =>
              ret.value.bounded_optimal_runtime = LargestRuntime

\* the scenario whose T_star is negative, with its shipped menu: the
\* bounded optimum is the smallest runtime of the menu
C30_Witness ==
    /\ Prepared
    /\ "runtime_menu" \in DOMAIN args
    /\ args.runtime_menu = SCENARIOS[3].runtime_menu
    /\ args.base_params = SCENARIOS[3].base_params
    /\ ret.value.summary.T_star < 0
    /\ ret.value.bounded_optimal_runtime = SmallestRuntime
    /\ SmallestRuntime < LargestRuntime

====
